---- MODULE Spec2Model ----
(***************************************************************************)
(* Client-side interaction layer of the dentistry site: theme toggle,      *)
(* mobile navigation menu and scroll reveal, in the four revisions the     *)
(* repository holds:                                                       *)
(*   "S3"  src/script.js          lines   1-212  (Version 3.0)             *)
(*   "S2"  src/script.js          lines 213-427  (Version 2.0)             *)
(*   "U1"  src/unnamed/part_000   lines   1-178                            *)
(*   "U2"  src/unnamed/part_000   lines 179-340  (batched scroll reveals)  *)
(* One page loads one revision.  A state of the model is the DOM state the *)
(* controllers read and write, the closure variables of the controllers,   *)
(* and the browser's IntersectionObserver / animation-frame queues.        *)
(***************************************************************************)
EXTENDS Integers, Sequences, FiniteSets, TLC

\* ------------------------------------------------------------------ bounds
\* Longest list of entries an observer holds before its callback is delivered.
MaxEntries == 3
\* Length of the click / toggle history kept for the two-step properties.
HistLen == 2
\* Most clicks on the facade that reach its handler.
MaxFacadeClicks == 3

\* --------------------------------------------------------------- constants
Revisions == {"S3", "S2", "U1", "U2"}
StrictRevs == {"S3", "S2", "U1"}

\* The nodes the controllers look up at initialisation.
Nodes == {"themeBtn", "themeIcon", "trigger", "menu", "triggerIcon",
          "header", "sentinel", "facade", "iframe", "backTop"}

\* Elements carrying the reveal-wrapper class: two in ordinary sections and
\* one inside the hero content.
WrapperEls == {"w1", "w2"}
HeroEls == {"h1"}
\* An element without the reveal-wrapper class.
PlainEls == {"p1"}
TaggedEls == WrapperEls \cup HeroEls
DocOrder == <<"w1", "w2", "h1">>

Null == "null"
NoRaf == 0
RafHandle == 1

VARIABLES
    \* page inputs, fixed for the page's lifetime
    rev,            \* the revision the page loads
    present,        \* the nodes the markup holds
    storageOK,      \* FALSE: every localStorage access throws
    systemDark,     \* matchMedia('(prefers-color-scheme: dark)').matches
    installed,      \* controllers whose listeners / observers were registered
    bootDark,       \* the DOM flag when the DOMContentLoaded listener started
    initThrew,      \* an exception left the DOMContentLoaded listener
    hasDataSrc,     \* the media frame carries a non-empty data-src attribute
    pageEls,        \* the reveal-wrapper elements the markup holds
    \* theme
    domDark,        \* html.classList.contains('dark-mode')
    iconText,       \* themeIcon.textContent ("none": no icon node)
    stored,         \* localStorage 'theme' (Null: no value)
    themeHist,      \* history: theme state before each of the last toggles
    themeFault,     \* history: the last theme click handler threw
    \* navigation menu
    ariaExpanded,   \* trigger's aria-expanded attribute
    btnActive,      \* trigger.classList.contains('active')
    menuActive,     \* menu.classList.contains('active')
    bodyOverflow,   \* document.body.style.overflow
    btnLabel,       \* trigger icon's textContent ("none": no icon node)
    lastClick,      \* history: the last click dispatched to the menu controller
    clickHist,      \* history: targets of the last clicks
    \* scroll reveal
    observed,       \* the reveal observer's observation targets
    prevIdx,        \* per target: previous threshold index (-1: never computed)
    queuedEntries,  \* the reveal observer's queued entries
    visibleElements,\* U2: the pending reveal queue
    rafId,          \* U2: the lock
    rafPending,     \* number of frame callbacks scheduled and not yet run
    visibleClass,   \* elements carrying the 'visible' class
    pushCount,      \* history: per element, times placed in the pending queue
    commitCount,    \* history: per element, classList.add('visible') calls
    qualified,      \* history: elements that qualified since the last commit ran
    batchCallbacks, \* history: qualifying callbacks since the last commit ran
    lateEntry,      \* history: elements with an entry handled after they qualified
    lastCommit,     \* history: the batch the last frame callback committed
    \* header marker: sticky header and back-to-top button
    sentinelIn,     \* the marker intersects the viewport, as last computed
    sentinelPrev,   \* the observers' previous threshold index of the marker
    stickyQueue,    \* isIntersecting of the sticky observer's queued entries
    backTopQueue,   \* the same for the back-to-top observer
    midNotify,      \* the notification task stands between the two callbacks
    headerScrolled, \* header.classList.contains('scrolled')
    backTopVisible, \* back-to-top button's classList.contains('visible')
    lastSticky,     \* history: the entries last delivered to the sticky header
    lastNotify,     \* history: the entries last delivered to back-to-top
    \* media facade
    iframeSrc,      \* the media frame has a src attribute
    facadeOpacity,  \* facade.style.opacity
    facadePointer,  \* facade.style.pointerEvents
    facadeDisplay,  \* facade.style.display
    facadeTimers,   \* removal timers scheduled and not yet fired
    srcSets,        \* history: iframe.setAttribute('src', ...) calls
    timersSet       \* history: setTimeout calls

pageVars == <<rev, present, storageOK, systemDark, installed, bootDark,
              initThrew, hasDataSrc, pageEls>>
themeVars == <<domDark, iconText, stored, themeHist, themeFault>>
menuVars == <<ariaExpanded, btnActive, menuActive, bodyOverflow, btnLabel>>
navVars == <<ariaExpanded, btnActive, menuActive, bodyOverflow, btnLabel,
             lastClick, clickHist>>
revealVars == <<observed, prevIdx, queuedEntries, visibleElements, rafId,
                rafPending, visibleClass, pushCount, commitCount, qualified,
                batchCallbacks, lateEntry, lastCommit>>
sentinelVars == <<sentinelIn, sentinelPrev, stickyQueue, backTopQueue,
                  midNotify, headerScrolled, backTopVisible, lastSticky,
                  lastNotify>>
facadeVars == <<iframeSrc, facadeOpacity, facadePointer, facadeDisplay,
                facadeTimers, srcSets, timersSet>>
vars == <<pageVars, themeVars, navVars, revealVars, sentinelVars, facadeVars>>

\* ------------------------------------------------------------------ helpers
\* The last n elements of s, pushed with x.
Remember(s, x) ==
    LET t == Append(s, x)
    IN  IF Len(t) > HistLen THEN SubSeq(t, Len(t) - HistLen + 1, Len(t)) ELSE t

BoolStr(b) == IF b THEN "true" ELSE "false"

\* ------------------------------------------------------------------- theme
\* A buggy variant of the label: it names the current state.
IconForCurrent(isDark) == IF isDark THEN "dark_mode" ELSE "light_mode"

\* updateIcon: the label names the target state.
IconFor(isDark) == IF isDark THEN "light_mode" ELSE "dark_mode"

\* A buggy variant of the token: the two strings swapped.
ThemeTokenSwapped(isDark) == IF isDark THEN "light" ELSE "dark"

\* The token written to the Preference Store.
ThemeToken(isDark) == IF isDark THEN "dark" ELSE "light"

\* The icon's text in the markup, before any script runs: the revisions that
\* synchronise the icon only when the page is dark rely on this default.
MarkupIcon(p) == IF "themeIcon" \in p THEN "dark_mode" ELSE "none"

\* initThemeToggle up to the registration of the click handler:
\* the DOM flag, the icon text and whether an exception left the function.
ThemeInit(r, p, ok, sysDark, dark0, st0) ==
    LET fromStore == st0 = "dark" \/ (st0 = Null /\ sysDark)
        hasIcon == "themeIcon" \in p
    IN  CASE r = "S3" ->
               IF ~ok THEN [dark |-> dark0, icon |-> MarkupIcon(p), threw |-> TRUE]
               ELSE [dark |-> dark0,
                     icon |-> IF hasIcon THEN IconFor(fromStore) ELSE "none",
                     threw |-> FALSE]
          [] r = "S2" ->
               IF ~ok THEN [dark |-> dark0, icon |-> MarkupIcon(p), threw |-> TRUE]
               ELSE [dark |-> dark0 \/ fromStore,
                     icon |-> IF hasIcon THEN IconFor(fromStore) ELSE "none",
                     threw |-> FALSE]
          [] r = "U1" ->
               IF dark0
               THEN [dark |-> dark0,
                     icon |-> IF hasIcon THEN IconFor(TRUE) ELSE "none",
                     threw |-> ~hasIcon]
               ELSE [dark |-> dark0, icon |-> MarkupIcon(p), threw |-> FALSE]
          [] r = "U2" ->
               IF "themeBtn" \notin p \/ ~hasIcon
               THEN [dark |-> dark0, icon |-> MarkupIcon(p), threw |-> FALSE]
               ELSE [dark |-> dark0,
                     icon |-> IF dark0 THEN "light_mode" ELSE MarkupIcon(p),
                     threw |-> FALSE]

\* Whether initThemeToggle registers the click handler.
ThemeHandlerRegistered(r, p) ==
    IF r = "U2" THEN "themeBtn" \in p /\ "themeIcon" \in p ELSE "themeBtn" \in p

\* localStorage.setItem('theme', v): the new stored value, unchanged when the
\* store throws.
SetItem(ok, st, v) == IF ok THEN v ELSE st

\* The click handler of the theme button, on t = [dark, icon, stored].
\* U1 writes the icon unguarded: without the icon node the handler throws
\* after the class was toggled and before the store is written.
ThemeClick(r, p, ok, t) ==
    LET isDark == ~t.dark
        hasIcon == "themeIcon" \in p
    IN  IF r = "U1" /\ ~hasIcon
        THEN [dark |-> isDark, icon |-> t.icon, stored |-> t.stored, threw |-> TRUE]
        ELSE [dark |-> isDark,
              icon |-> IF hasIcon THEN IconFor(isDark) ELSE t.icon,
              stored |-> SetItem(ok, t.stored, ThemeToken(isDark)),
              threw |-> ~ok]

ThemeState == [dark |-> domDark, icon |-> iconText, stored |-> stored]

\* -------------------------------------------------------------------- menu
\* What a click can land on, as the menu controller tells them apart: the
\* trigger (or a node inside it), a link inside the menu panel, the panel
\* itself off any link, the theme button, or anything else on the page.
\* The theme button sits in the header, outside the menu panel.
ClickTargets == {"trigger", "link", "panel", "outside", "themeBtn",
                 "facade", "backTop"}
InMenu(target) == target \in {"link", "panel"}
InTrigger(target) == target = "trigger"

MenuDom == [aria |-> ariaExpanded, btnActive |-> btnActive,
            menuActive |-> menuActive, overflow |-> bodyOverflow,
            label |-> btnLabel]

\* The markup's closed menu: aria-expanded="false", no active class, no
\* inline overflow, the 'menu' glyph in the trigger's icon.
ClosedMarkup(p) ==
    [aria |-> "false", btnActive |-> FALSE, menuActive |-> FALSE,
     overflow |-> "", label |-> IF "triggerIcon" \in p THEN "menu" ELSE "none"]

\* A buggy variant of the strict toggle: the scroll lock is never released.
StrictToggleKeepsLock(p, m) ==
    LET isExpanded == m.aria = "true"
    IN  [aria |-> BoolStr(~isExpanded),
         btnActive |-> ~m.btnActive,
         menuActive |-> ~m.menuActive,
         overflow |-> "hidden",
         label |-> IF "triggerIcon" \in p
                   THEN (IF ~isExpanded THEN "close" ELSE "menu")
                   ELSE m.label]

\* toggleMenu of S3, S2 and U1: every projection is flipped on its own.
StrictToggle(p, m) ==
    LET isExpanded == m.aria = "true"
    IN  [aria |-> BoolStr(~isExpanded),
         btnActive |-> ~m.btnActive,
         menuActive |-> ~m.menuActive,
         overflow |-> IF ~isExpanded THEN "hidden" ELSE "",
         label |-> IF "triggerIcon" \in p
                   THEN (IF ~isExpanded THEN "close" ELSE "menu")
                   ELSE m.label]

\* A buggy variant of the forced toggle: the trigger's class is toggled
\* without the force argument.
ForceToggleFlipsBtn(p, m, forceClose) ==
    LET isExpanded == m.aria = "true"
        willExpand == IF forceClose THEN FALSE ELSE ~isExpanded
    IN  [aria |-> BoolStr(willExpand),
         btnActive |-> ~m.btnActive,
         menuActive |-> willExpand,
         overflow |-> IF willExpand THEN "hidden" ELSE "",
         label |-> IF "triggerIcon" \in p
                   THEN (IF willExpand THEN "close" ELSE "menu")
                   ELSE m.label]

\* toggleMenu(forceClose) of U2: every projection is set from willExpand.
ForceToggle(p, m, forceClose) ==
    LET isExpanded == m.aria = "true"
        willExpand == IF forceClose THEN FALSE ELSE ~isExpanded
    IN  [aria |-> BoolStr(willExpand),
         btnActive |-> willExpand,
         menuActive |-> willExpand,
         overflow |-> IF willExpand THEN "hidden" ELSE "",
         label |-> IF "triggerIcon" \in p
                   THEN (IF willExpand THEN "close" ELSE "menu")
                   ELSE m.label]

toggleMenu(r, p, m, forceClose) ==
    IF r = "U2" THEN ForceToggle(p, m, forceClose) ELSE StrictToggle(p, m)

\* A buggy variant of the trigger's listener: the click keeps bubbling.
TriggerPropagates == FALSE

\* The trigger's click listener calls e.stopPropagation().
TriggerStopsPropagation == TRUE

\* A buggy variant of the link's listener: a plain toggle, unguarded.
LinkClickToggles(r, p, m) ==
    [dom |-> toggleMenu(r, p, m, FALSE), calls |-> 1]

\* The click listener of a link inside the menu: [dom, calls].
LinkClick(r, p, m) ==
    IF r = "U2"
    THEN [dom |-> toggleMenu(r, p, m, TRUE), calls |-> 1]
    ELSE IF m.menuActive
         THEN [dom |-> toggleMenu(r, p, m, FALSE), calls |-> 1]
         ELSE [dom |-> m, calls |-> 0]

\* A buggy variant of the document's listener: a plain toggle for every click
\* outside the trigger, whatever the menu's state.
DocumentClickReopens(r, p, m, target) ==
    IF ~InTrigger(target)
    THEN [dom |-> toggleMenu(r, p, m, FALSE), calls |-> 1]
    ELSE [dom |-> m, calls |-> 0]

\* A buggy variant of the document's listener: the panel is not excluded.
DocumentClickAnywhere(r, p, m, target) ==
    IF m.menuActive /\ ~InTrigger(target)
    THEN [dom |-> toggleMenu(r, p, m, TRUE), calls |-> 1]
    ELSE [dom |-> m, calls |-> 0]

\* The document-level click listener: [dom, calls].
DocumentClick(r, p, m, target) ==
    IF m.menuActive /\ ~InMenu(target) /\ ~InTrigger(target)
    THEN [dom |-> toggleMenu(r, p, m, TRUE), calls |-> 1]
    ELSE [dom |-> m, calls |-> 0]

\* One click, dispatched through the listeners of the menu controller in
\* bubbling order: the target's own listener, then the document's unless the
\* propagation was stopped.  [dom, calls, docRan].
MenuDispatch(r, p, inst, m, target) ==
    IF "nav" \notin inst
    THEN [dom |-> m, calls |-> 0, docRan |-> FALSE]
    ELSE LET own == CASE target = "trigger" ->
                           [dom |-> toggleMenu(r, p, m, FALSE), calls |-> 1]
                      [] target = "link" -> LinkClick(r, p, m)
                      [] OTHER -> [dom |-> m, calls |-> 0]
             bubbles == ~(target = "trigger" /\ TriggerStopsPropagation)
             doc == IF bubbles THEN DocumentClick(r, p, own.dom, target)
                    ELSE [dom |-> own.dom, calls |-> 0]
         IN  [dom |-> doc.dom, calls |-> own.calls + doc.calls, docRan |-> bubbles]

\* The click as an action on the menu's variables.  A click is dispatched as
\* a task of its own, never between the callbacks of a notification.
ApplyClick(target) ==
    LET d == MenuDispatch(rev, present, installed, MenuDom, target)
    IN  /\ ~midNotify
        /\ ariaExpanded' = d.dom.aria
        /\ btnActive' = d.dom.btnActive
        /\ menuActive' = d.dom.menuActive
        /\ bodyOverflow' = d.dom.overflow
        /\ btnLabel' = d.dom.label
        /\ lastClick' = [target |-> target, before |-> MenuDom,
                         calls |-> d.calls, docRan |-> d.docRan]
        /\ clickHist' = Remember(clickHist, target)

ClickTrigger ==
    /\ "trigger" \in present
    /\ ApplyClick("trigger")
    /\ UNCHANGED <<pageVars, sentinelVars, facadeVars, themeVars, revealVars>>

ClickLink ==
    /\ "menu" \in present
    /\ ApplyClick("link")
    /\ UNCHANGED <<pageVars, sentinelVars, facadeVars, themeVars, revealVars>>

ClickPanel ==
    /\ "menu" \in present
    /\ ApplyClick("panel")
    /\ UNCHANGED <<pageVars, sentinelVars, facadeVars, themeVars, revealVars>>

ClickOutside ==
    /\ ApplyClick("outside")
    /\ UNCHANGED <<pageVars, sentinelVars, facadeVars, themeVars, revealVars>>

\* A click on the theme button: its own listener (when registered), then the
\* document's.  An exception thrown by a listener is reported and does not
\* stop the dispatch.
ClickThemeBtn ==
    /\ "themeBtn" \in present
    /\ LET t == IF "theme" \in installed
                THEN ThemeClick(rev, present, storageOK, ThemeState)
                ELSE [dark |-> domDark, icon |-> iconText,
                      stored |-> stored, threw |-> FALSE]
       IN  /\ domDark' = t.dark
           /\ iconText' = t.icon
           /\ stored' = t.stored
           /\ themeFault' = t.threw
           /\ themeHist' = IF "theme" \in installed
                           THEN Remember(themeHist, ThemeState)
                           ELSE themeHist
    /\ ApplyClick("themeBtn")
    /\ UNCHANGED <<pageVars, sentinelVars, facadeVars, revealVars>>

\* ------------------------------------------------------------ scroll reveal
AllEls == WrapperEls \cup HeroEls \cup PlainEls

\* The elements the controller enumerates: every reveal-wrapper, and in U2
\* those outside the hero content.
Enumerated(r) == IF r = "U2" THEN WrapperEls ELSE WrapperEls \cup HeroEls

\* A buggy variant of the query: every reveal-wrapper of the page, the hero's
\* included, in every revision.
SelectedWithHero(r, els) == els

\* The result of the controller's querySelectorAll on a page holding els.
Selected(r, els) == Enumerated(r) \cap els

\* Threshold index of an observation: 1 when the element intersects the root
\* by at least the threshold, 0 otherwise.
IdxOf(isIntersecting) == IF isIntersecting THEN 1 ELSE 0

\* The entries one update of the intersection observations queues: one per
\* observed target, in document order, whose threshold index changed.
RECURSIVE NewEntries(_, _, _, _)
NewEntries(order, obs, prev, inView) ==
    IF order = <<>> THEN <<>>
    ELSE LET e == Head(order)
             rest == NewEntries(Tail(order), obs, prev, inView)
         IN  IF e \in obs /\ prev[e] # IdxOf(e \in inView)
             THEN <<[target |-> e, isIntersecting |-> e \in inView]>> \o rest
             ELSE rest

\* Number of intersecting entries for element e in a delivery.
RECURSIVE CountQualifying(_, _)
CountQualifying(entries, e) ==
    IF entries = <<>> THEN 0
    ELSE (IF Head(entries).target = e /\ Head(entries).isIntersecting THEN 1 ELSE 0)
         + CountQualifying(Tail(entries), e)

\* Elements of a delivery with a further entry after their first qualifying one.
LateIn(entries) ==
    {e \in AllEls :
        \E i, j \in 1..Len(entries) :
            /\ i < j
            /\ entries[i].target = e /\ entries[i].isIntersecting
            /\ entries[j].target = e}

Qualifying(entries) ==
    {entries[i].target : i \in {j \in 1..Len(entries) : entries[j].isIntersecting}}

\* Number of times e occurs in the pending queue.
RECURSIVE Occurrences(_, _)
Occurrences(q, e) ==
    IF q = <<>> THEN 0
    ELSE (IF Head(q) = e THEN 1 ELSE 0) + Occurrences(Tail(q), e)

Range(q) == {q[i] : i \in 1..Len(q)}

\* A buggy variant of the callback below: the class mirrors the entry
\* (classList.toggle('visible', entry.isIntersecting)) and the element stays
\* observed.
RECURSIVE DirectCallbackMirrors(_, _, _)
DirectCallbackMirrors(entries, vis, obs) ==
    IF entries = <<>> THEN [visible |-> vis, obs |-> obs]
    ELSE LET en == Head(entries)
         IN  IF en.isIntersecting
             THEN DirectCallbackMirrors(Tail(entries), vis \cup {en.target}, obs)
             ELSE DirectCallbackMirrors(Tail(entries), vis \ {en.target}, obs)

\* entries.forEach of S3, S2 and U1: add the class, stop observing.
RECURSIVE DirectCallback(_, _, _)
DirectCallback(entries, vis, obs) ==
    IF entries = <<>> THEN [visible |-> vis, obs |-> obs]
    ELSE LET en == Head(entries)
         IN  IF en.isIntersecting
             THEN DirectCallback(Tail(entries), vis \cup {en.target},
                                 obs \ {en.target})
             ELSE DirectCallback(Tail(entries), vis, obs)

\* A buggy variant of the batched callback: the element is queued and stays
\* observed.
RECURSIVE BatchedCallbackKeepsObserving(_, _, _, _)
BatchedCallbackKeepsObserving(entries, queue, obs, hasNew) ==
    IF entries = <<>>
    THEN [queue |-> queue, obs |-> obs, hasNewVisible |-> hasNew]
    ELSE LET en == Head(entries)
         IN  IF en.isIntersecting
             THEN BatchedCallbackKeepsObserving(
                      Tail(entries), Append(queue, en.target), obs, TRUE)
             ELSE BatchedCallbackKeepsObserving(Tail(entries), queue, obs, hasNew)

\* entries.forEach of U2: queue the element, stop observing, note the news.
\* [queue, obs, hasNewVisible].
RECURSIVE BatchedCallback(_, _, _, _)
BatchedCallback(entries, queue, obs, hasNew) ==
    IF entries = <<>>
    THEN [queue |-> queue, obs |-> obs, hasNewVisible |-> hasNew]
    ELSE LET en == Head(entries)
         IN  IF en.isIntersecting
             THEN BatchedCallback(Tail(entries), Append(queue, en.target),
                                  obs \ {en.target}, TRUE)
             ELSE BatchedCallback(Tail(entries), queue, obs, hasNew)

\* A buggy variant of the lock: schedule whenever the lock is free, new
\* elements or not.
ScheduleWhenFree(hasNewVisible, id) == id = NoRaf

\* A buggy variant of the lock: schedule whenever something is new.
ScheduleAlways(hasNewVisible, id) == hasNewVisible

\* if (hasNewVisible && !rafId)
ShouldSchedule(hasNewVisible, id) == hasNewVisible /\ id = NoRaf

\* A buggy variant of the commit: only the head of the queue is revealed.
CommitHeadOnly(queue, vis) == IF queue = <<>> THEN vis ELSE vis \cup {Head(queue)}

\* visibleElements.forEach(el => el.classList.add('visible'))
CommitQueue(queue, vis) == vis \cup Range(queue)

\* The browser updates the intersection observations of a rendering frame.
\* inView: the observed elements that intersect the root in this frame.
UpdateObservations ==
    /\ observed # {}
    /\ \E inView \in SUBSET observed :
          LET new == NewEntries(DocOrder, observed, prevIdx, inView)
          IN  /\ new # <<>>
              /\ Len(queuedEntries) + Len(new) <= MaxEntries
              /\ queuedEntries' = queuedEntries \o new
              /\ prevIdx' = [e \in AllEls |->
                                IF e \in observed THEN IdxOf(e \in inView)
                                ELSE prevIdx[e]]
    /\ UNCHANGED <<observed, visibleElements, rafId, rafPending, visibleClass,
                   pushCount, commitCount, qualified, batchCallbacks, lateEntry,
                   lastCommit>>
    /\ UNCHANGED <<pageVars, sentinelVars, facadeVars, themeVars, navVars>>

\* The browser delivers the queued entries to the reveal observer's callback.
DeliverEntries ==
    /\ queuedEntries # <<>>
    /\ queuedEntries' = <<>>
    /\ lateEntry' = lateEntry \cup LateIn(queuedEntries)
    /\ UNCHANGED lastCommit
    /\ IF rev = "U2"
       THEN LET r == BatchedCallback(queuedEntries, visibleElements, observed, FALSE)
                sched == ShouldSchedule(r.hasNewVisible, rafId)
            IN  /\ visibleElements' = r.queue
                /\ observed' = r.obs
                /\ prevIdx' = [e \in AllEls |-> IF e \in r.obs THEN prevIdx[e] ELSE -1]
                /\ rafId' = IF sched THEN RafHandle ELSE rafId
                /\ rafPending' = IF sched THEN rafPending + 1 ELSE rafPending
                /\ pushCount' = [e \in AllEls |->
                                    pushCount[e] + CountQualifying(queuedEntries, e)]
                /\ qualified' = qualified \cup Qualifying(queuedEntries)
                /\ batchCallbacks' = IF r.hasNewVisible THEN batchCallbacks + 1
                                     ELSE batchCallbacks
                /\ UNCHANGED <<visibleClass, commitCount>>
       ELSE LET r == DirectCallback(queuedEntries, visibleClass, observed)
            IN  /\ visibleClass' = r.visible
                /\ observed' = r.obs
                /\ prevIdx' = [e \in AllEls |-> IF e \in r.obs THEN prevIdx[e] ELSE -1]
                /\ commitCount' = [e \in AllEls |->
                                      commitCount[e] + CountQualifying(queuedEntries, e)]
                /\ UNCHANGED <<visibleElements, rafId, rafPending, pushCount,
                               qualified, batchCallbacks>>
    /\ UNCHANGED <<pageVars, sentinelVars, facadeVars, themeVars, navVars>>

\* A buggy variant of the frame callback's last statement: the lock is left
\* set.
LockNeverReset == RafHandle

\* The lock after the frame callback ran: rafId = null.
RafAfterCommit == NoRaf

\* The browser runs a scheduled frame callback of U2.
RunFrameCallback ==
    /\ rafPending > 0
    /\ visibleClass' = CommitQueue(visibleElements, visibleClass)
    /\ commitCount' = [e \in AllEls |->
                          commitCount[e] + Occurrences(visibleElements, e)]
    /\ visibleElements' = <<>>
    /\ rafId' = RafAfterCommit
    /\ rafPending' = rafPending - 1
    /\ qualified' = {}
    /\ batchCallbacks' = 0
    /\ lastCommit' = [callbacks |-> batchCallbacks, qualified |-> qualified,
                      revealed |-> CommitQueue(visibleElements, visibleClass)
                                   \ visibleClass]
    /\ UNCHANGED <<observed, prevIdx, queuedEntries, pushCount, lateEntry>>
    /\ UNCHANGED <<pageVars, sentinelVars, facadeVars, themeVars, navVars>>

\* ------------------------------------------- sticky header and back to top
\* The observers of the header marker that initialisation created.
SentinelObservers(inst) == inst \cap {"sticky", "backtop"}

\* The callbacks destructure their argument as ([entry]): they read the
\* first entry of the delivery and ignore the others.
FirstEntry(entries) == entries[1]

\* The sticky header's callback: the new presence of 'scrolled'.
StickyCallback(entries) == ~FirstEntry(entries)

\* A buggy variant of the back-to-top callback: the branches exchanged.
BackTopCallbackInverted(entries) == FirstEntry(entries)

\* The back-to-top callback: the new presence of 'visible'.
BackTopCallback(entries) == ~FirstEntry(entries)

\* The queue of an observer after one more observation: an observer that was
\* not created queues nothing.
Queued(queue, inst, observer, isIn) ==
    IF observer \in inst THEN Append(queue, isIn) ELSE queue

\* One "update the rendering" step after a scroll: the browser recomputes the
\* marker's intersection and queues an entry with every observer when the
\* threshold index changed (always on the first computation).  Both observers
\* are created in the same listener with the same options and the same
\* target, so one previous index serves both.  The step is a task of its
\* own: it does not run between the two callbacks of a notification.
UpdateSentinel ==
    /\ "sentinel" \in present
    /\ ~midNotify
    /\ \E isIn \in BOOLEAN :
          /\ isIn # sentinelIn \/ sentinelPrev = -1
          /\ sentinelIn' = isIn
          /\ IF SentinelObservers(installed) # {} /\ IdxOf(isIn) # sentinelPrev
             THEN /\ Len(stickyQueue) < MaxEntries
                  /\ Len(backTopQueue) < MaxEntries
                  /\ stickyQueue' = Queued(stickyQueue, installed, "sticky", isIn)
                  /\ backTopQueue' =
                        Queued(backTopQueue, installed, "backtop", isIn)
                  /\ sentinelPrev' = IdxOf(isIn)
             ELSE UNCHANGED <<stickyQueue, backTopQueue, sentinelPrev>>
    /\ UNCHANGED <<midNotify, headerScrolled, backTopVisible, lastSticky,
                   lastNotify>>
    /\ UNCHANGED <<pageVars, themeVars, navVars, revealVars, facadeVars>>

\* The notification task, first half: the browser visits the observers in
\* the order they were created, the sticky header's first, and hands each
\* its queued entries; an observer with an empty queue is skipped.
NotifySticky ==
    /\ ~midNotify
    /\ stickyQueue # <<>> \/ backTopQueue # <<>>
    /\ IF stickyQueue # <<>>
       THEN /\ headerScrolled' = StickyCallback(stickyQueue)
            /\ lastSticky' = stickyQueue
       ELSE UNCHANGED <<headerScrolled, lastSticky>>
    /\ stickyQueue' = <<>>
    /\ midNotify' = TRUE
    /\ UNCHANGED <<sentinelIn, sentinelPrev, backTopQueue, backTopVisible,
                   lastNotify>>
    /\ UNCHANGED <<pageVars, themeVars, navVars, revealVars, facadeVars>>

\* The notification task, second half: the back-to-top observer.
NotifyBackTop ==
    /\ midNotify
    /\ IF backTopQueue # <<>>
       THEN /\ backTopVisible' = BackTopCallback(backTopQueue)
            /\ lastNotify' = backTopQueue
       ELSE UNCHANGED <<backTopVisible, lastNotify>>
    /\ backTopQueue' = <<>>
    /\ midNotify' = FALSE
    /\ UNCHANGED <<sentinelIn, sentinelPrev, stickyQueue, headerScrolled,
                   lastSticky>>
    /\ UNCHANGED <<pageVars, themeVars, navVars, revealVars, facadeVars>>

\* A click on the back-to-top button: its handler prevents the default and
\* asks for a smooth scroll to the top, which later rendering steps carry
\* out; the click then bubbles to the document.
ClickBackTop ==
    /\ "backTop" \in present
    /\ ApplyClick("backTop")
    /\ UNCHANGED <<pageVars, themeVars, revealVars, sentinelVars, facadeVars>>

\* ------------------------------------------------------------ media facade
FacadeDom == [src |-> iframeSrc, opacity |-> facadeOpacity,
              pointer |-> facadePointer, display |-> facadeDisplay,
              timers |-> facadeTimers, srcSets |-> srcSets,
              timersSet |-> timersSet]

\* The placeholder as the markup has it.
FacadeMarkup == [src |-> FALSE, opacity |-> "", pointer |-> "", display |-> "",
                 timers |-> 0, srcSets |-> 0, timersSet |-> 0]

\* A buggy variant of the handler: the fade starts although no locator was
\* found.
FacadeClickFadesAnyway(r, hasSrc, f) ==
    IF hasSrc
    THEN [f EXCEPT !.src = TRUE, !.opacity = "0",
                   !.pointer = IF r = "S3" THEN "none" ELSE @,
                   !.timers = @ + 1, !.srcSets = @ + 1, !.timersSet = @ + 1]
    ELSE [f EXCEPT !.opacity = "0"]

\* A buggy variant of the handler: the placeholder is removed at once, with
\* no timer.
FacadeClickHidesAtOnce(r, hasSrc, f) ==
    IF hasSrc
    THEN [f EXCEPT !.src = TRUE, !.opacity = "0",
                   !.pointer = IF r = "S3" THEN "none" ELSE @,
                   !.display = "none", !.srcSets = @ + 1]
    ELSE f

\* The facade's click handler: with a locator it sets the frame's source,
\* starts the fade (S3 also stops pointer events) and schedules the removal.
FacadeClick(r, hasSrc, f) ==
    IF hasSrc
    THEN [f EXCEPT !.src = TRUE, !.opacity = "0",
                   !.pointer = IF r = "S3" THEN "none" ELSE @,
                   !.timers = @ + 1, !.srcSets = @ + 1, !.timersSet = @ + 1]
    ELSE f

\* A click lands on the facade while it is displayed and takes pointer
\* events; it then bubbles to the document.
ClickFacade ==
    /\ "facade" \in present
    /\ facadeDisplay # "none"
    /\ facadePointer # "none"
    /\ srcSets < MaxFacadeClicks
    /\ LET f == IF "facade" \in installed
                THEN FacadeClick(rev, hasDataSrc, FacadeDom)
                ELSE FacadeDom
       IN  /\ iframeSrc' = f.src
           /\ facadeOpacity' = f.opacity
           /\ facadePointer' = f.pointer
           /\ facadeDisplay' = f.display
           /\ facadeTimers' = f.timers
           /\ srcSets' = f.srcSets
           /\ timersSet' = f.timersSet
    /\ ApplyClick("facade")
    /\ UNCHANGED <<pageVars, themeVars, revealVars, sentinelVars>>

\* A removal timer fires, 500 ms after the click that scheduled it.
FireFacadeTimer ==
    /\ facadeTimers > 0
    /\ facadeDisplay' = "none"
    /\ facadeTimers' = facadeTimers - 1
    /\ UNCHANGED <<iframeSrc, facadeOpacity, facadePointer, srcSets, timersSet>>
    /\ UNCHANGED <<pageVars, themeVars, navVars, revealVars, sentinelVars>>

\* ----------------------------------------------------------- initialisation
\* The controllers registered by the DOMContentLoaded listener.  S3, S2 and
\* U1 call initThemeToggle first: an exception leaving it ends the listener
\* before any other controller is initialised.  U2 calls it third, and it
\* does not throw there.
\* A buggy variant: the menu is wired only when the marker exists.
NavNeedsSentinel(p) == {"trigger", "menu", "sentinel"} \subseteq p

\* initNavigation wires the menu when the trigger and the panel exist.
NavInstalled(p) == {"trigger", "menu"} \subseteq p

Controllers(r, p, els, themeThrew) ==
    LET theme == IF ThemeHandlerRegistered(r, p) THEN {"theme"} ELSE {}
        nav == IF NavInstalled(p) THEN {"nav"} ELSE {}
        sticky == IF {"header", "sentinel"} \subseteq p THEN {"sticky"} ELSE {}
        reveal == IF Selected(r, els) # {} THEN {"reveal"} ELSE {}
        facade == IF r \in {"S3", "S2"} /\ {"facade", "iframe"} \subseteq p
                  THEN {"facade"} ELSE {}
        backtop == IF {"backTop", "sentinel"} \subseteq p
                   THEN {"backtop"} ELSE {}
        all == theme \cup nav \cup sticky \cup reveal \cup facade \cup backtop
    IN  IF r = "U2" THEN all
        ELSE IF themeThrew THEN {}
        ELSE all

Init ==
    /\ rev \in Revisions
    /\ present \in SUBSET Nodes
    /\ storageOK \in BOOLEAN
    /\ systemDark \in BOOLEAN
    /\ hasDataSrc \in BOOLEAN
    /\ pageEls \in SUBSET TaggedEls
    /\ stored \in {Null, "dark", "light"}
    /\ \E dark0 \in BOOLEAN :
          LET ti == ThemeInit(rev, present, storageOK, systemDark, dark0, stored)
          IN  /\ domDark = ti.dark
              /\ iconText = ti.icon
              /\ installed = Controllers(rev, present, pageEls, ti.threw)
              /\ bootDark = dark0
              /\ initThrew = ti.threw
    /\ themeHist = <<>>
    /\ themeFault = FALSE
    /\ ariaExpanded = ClosedMarkup(present).aria
    /\ btnActive = ClosedMarkup(present).btnActive
    /\ menuActive = ClosedMarkup(present).menuActive
    /\ bodyOverflow = ClosedMarkup(present).overflow
    /\ btnLabel = ClosedMarkup(present).label
    /\ lastClick = [target |-> "none", before |-> ClosedMarkup(present),
                    calls |-> 0, docRan |-> FALSE]
    /\ clickHist = <<>>
    /\ observed = IF "reveal" \in installed THEN Selected(rev, pageEls) ELSE {}
    /\ prevIdx = [e \in AllEls |-> -1]
    /\ queuedEntries = <<>>
    /\ visibleElements = <<>>
    /\ rafId = NoRaf
    /\ rafPending = 0
    /\ visibleClass = {}
    /\ pushCount = [e \in AllEls |-> 0]
    /\ commitCount = [e \in AllEls |-> 0]
    /\ qualified = {}
    /\ batchCallbacks = 0
    /\ lateEntry = {}
    /\ lastCommit = [callbacks |-> 0, qualified |-> {}, revealed |-> {}]
    /\ sentinelIn = TRUE
    /\ sentinelPrev = -1
    /\ stickyQueue = <<>>
    /\ backTopQueue = <<>>
    /\ midNotify = FALSE
    /\ headerScrolled = FALSE
    /\ backTopVisible = FALSE
    /\ lastSticky = <<>>
    /\ lastNotify = <<>>
    /\ iframeSrc = FacadeMarkup.src
    /\ facadeOpacity = FacadeMarkup.opacity
    /\ facadePointer = FacadeMarkup.pointer
    /\ facadeDisplay = FacadeMarkup.display
    /\ facadeTimers = FacadeMarkup.timers
    /\ srcSets = FacadeMarkup.srcSets
    /\ timersSet = FacadeMarkup.timersSet

\* The mode the inline script of the page's head establishes before the
\* listener runs: the stored token, or the system signal when nothing is
\* stored.  S3 recomputes it as isDarkInitial, S2 applies it itself.
isDarkInitial(st, sysDark) == st = "dark" \/ (st = Null /\ sysDark)

\* The DOM flag is the one the inline script set.  With the store out of
\* reach the inline script cannot read it, and the flag is left open.
InlineScriptRan == storageOK => domDark = isDarkInitial(stored, systemDark)

\* The media frame carries its locator and the page holds every
\* reveal-wrapper.
FullContent == hasDataSrc = TRUE /\ pageEls = TaggedEls

\* A page with every node, a working store and a light system theme.
PlainPage ==
    /\ present = Nodes
    /\ hasDataSrc
    /\ pageEls = TaggedEls
    /\ storageOK
    /\ ~systemDark
    /\ stored = Null
    /\ ~domDark

Next ==
    \/ ClickTrigger
    \/ ClickLink
    \/ ClickPanel
    \/ ClickOutside
    \/ ClickThemeBtn
    \/ UpdateObservations
    \/ DeliverEntries
    \/ RunFrameCallback
    \/ UpdateSentinel
    \/ NotifySticky
    \/ NotifyBackTop
    \/ ClickBackTop
    \/ ClickFacade
    \/ FireFacadeTimer

Spec == Init /\ [][Next]_vars

\* A working store, a light system theme and nothing stored.
LightDefaults ==
    /\ storageOK
    /\ ~systemDark
    /\ stored = Null
    /\ ~domDark

\* The reveal controller alone, on a plain page.
InitReveal == present = Nodes /\ FullContent /\ Init /\ PlainPage
NextReveal ==
    \/ UpdateObservations
    \/ DeliverEntries
    \/ RunFrameCallback
SpecReveal == InitReveal /\ [][NextReveal]_vars

\* The reveal controller over every set of reveal-wrapper elements a page
\* can hold, the empty one included.
InitRevealAny ==
    /\ present = Nodes
    /\ hasDataSrc = TRUE
    /\ Init
    /\ LightDefaults
SpecRevealAny == InitRevealAny /\ [][NextReveal]_vars

\* The browser runs a requested animation-frame callback before the next
\* paint: a scheduled commit is not postponed for ever.
SpecRevealFair ==
    InitReveal /\ [][NextReveal]_vars /\ WF_vars(RunFrameCallback)

\* The menu controller, with and without the trigger's icon node.
InitMenu ==
    /\ FullContent
    /\ Init
    /\ Nodes \ {"triggerIcon"} \subseteq present
    /\ storageOK
    /\ ~systemDark
    /\ stored = Null
    /\ ~domDark
NextMenu ==
    \/ ClickTrigger
    \/ ClickLink
    \/ ClickPanel
    \/ ClickOutside
    \/ ClickThemeBtn
SpecMenu == InitMenu /\ [][NextMenu]_vars

NextTheme == ClickThemeBtn

\* The theme controller on a page with every node, over every combination
\* of DOM flag, stored value, system signal and store availability.
InitThemeAny == present = Nodes /\ FullContent /\ Init
SpecThemeAny == InitThemeAny /\ [][NextTheme]_vars

\* The theme controller, over every page input the inline script allows.
InitTheme ==
    /\ FullContent
    /\ Init
    /\ Nodes \ {"themeBtn", "themeIcon"} \subseteq present
    /\ InlineScriptRan
SpecTheme == InitTheme /\ [][NextTheme]_vars

\* The sticky header and the back-to-top button next to the menu, with and
\* without the header, the marker and the button.
InitSentinel ==
    /\ FullContent
    /\ Init
    /\ Nodes \ {"header", "sentinel", "backTop"} \subseteq present
    /\ LightDefaults
NextSentinel ==
    \/ UpdateSentinel
    \/ NotifySticky
    \/ NotifyBackTop
    \/ ClickBackTop
    \/ ClickTrigger
SpecSentinel == InitSentinel /\ [][NextSentinel]_vars

\* The media facade next to the menu, with and without a locator on the
\* media frame.
InitFacade ==
    /\ present = Nodes
    /\ pageEls = TaggedEls
    /\ Init
    /\ LightDefaults
NextFacade ==
    \/ ClickFacade
    \/ FireFacadeTimer
    \/ ClickTrigger
SpecFacade == InitFacade /\ [][NextFacade]_vars

\* Every subset of the nodes, under the clicks the page offers.
InitMissing ==
    /\ FullContent
    /\ Init
    /\ LightDefaults
NextMissing ==
    \/ ClickThemeBtn
    \/ ClickTrigger
    \/ ClickFacade
    \/ FireFacadeTimer
    \/ ClickBackTop
SpecMissing == InitMissing /\ [][NextMissing]_vars

\* ================================================================== claims
IsClosed(m) ==
    /\ m.aria = "false"
    /\ ~m.btnActive
    /\ ~m.menuActive
    /\ m.overflow = ""
    /\ m.label = IF "triggerIcon" \in present THEN "menu" ELSE "none"

IsOpen(m) ==
    /\ m.aria = "true"
    /\ m.btnActive
    /\ m.menuActive
    /\ m.overflow = "hidden"
    /\ m.label = IF "triggerIcon" \in present THEN "close" ELSE "none"

\* The targets of the last two clicks, oldest first.
LastTwoClicks == SubSeq(clickHist, Len(clickHist) - 1, Len(clickHist))

\* The Preference Store's token and the icon's label for a mode, as the
\* specification gives them.
TokenOf(dark) == IF dark THEN "dark" ELSE "light"
LabelOf(dark) == IF dark THEN "light_mode" ELSE "dark_mode"

\* The theme state before the last two toggles.
TwoTogglesAgo == themeHist[Len(themeHist) - 1]

\* C1: once an element carries the 'visible' class, no step of the reveal
\* controller (a delivery of entries in any order, a frame callback) takes
\* the class away again.
C1_IdempotentReveal == [][visibleClass \subseteq visibleClass']_vars

\* C1 witness: in a revision that reveals in the callback, an element was
\* revealed and the same delivery then reported it leaving and re-entering.
C1_Witness ==
    \E e \in AllEls :
        /\ rev \in StrictRevs
        /\ e \in visibleClass
        /\ e \in lateEntry
        /\ commitCount[e] = 2

\* C2: in the batched revision every element is placed in the pending reveal
\* queue at most once and has the 'visible' class committed for it at most
\* once, over any sequence of intersection callbacks.
C2_AtMostOnceFiring ==
    rev = "U2" => \A e \in AllEls : pushCount[e] <= 1 /\ commitCount[e] <= 1

\* C3: at most one frame callback of the reveal controller is scheduled and
\* not yet run, in every reachable state.
C3_OneScheduledCommit == rafPending <= 1

\* C3 witness: a second qualifying callback arrived while a commit was
\* scheduled, and one commit is outstanding.
C3_Witness ==
    /\ rafPending = 1
    /\ rafId = RafHandle
    /\ batchCallbacks >= 2

\* C4: whenever a scheduled commit runs it is the only one outstanding, the
\* pending queue holds exactly the elements that qualified in the callbacks
\* since the previous commit, the commit gives all of them the 'visible'
\* class, and it leaves the queue empty and the lock released.
C4_BatchCommit ==
    [][rafPending' < rafPending =>
          /\ rafPending = 1
          /\ rafPending' = 0
          /\ Range(visibleElements) = qualified
          /\ visibleClass' = visibleClass \cup qualified
          /\ visibleElements' = <<>>
          /\ rafId' = NoRaf]_vars

\* C4 witness: a commit has run for a batch that two callbacks filled with
\* two elements, both are revealed, and nothing is left queued or locked.
C4_Witness ==
    /\ lastCommit.callbacks >= 2
    /\ Cardinality(lastCommit.qualified) >= 2
    /\ lastCommit.revealed = lastCommit.qualified
    /\ lastCommit.qualified \subseteq visibleClass
    /\ visibleElements = <<>>
    /\ rafId = NoRaf
    /\ rafPending = 0

\* C5: with the menu controller initialised, a click on the trigger of the
\* Closed menu leaves it Open (expanded "true", both active classes, scroll
\* locked, label 'close'), and a click on the trigger of the Open menu leaves
\* it Closed with every one of these reversed.
C5_MenuToggleSymmetry ==
    ("nav" \in installed /\ lastClick.target = "trigger") =>
        /\ IsClosed(lastClick.before) => IsOpen(MenuDom)
        /\ IsOpen(lastClick.before) => IsClosed(MenuDom)

\* C5 witness: two trigger clicks in a row, the second one closing the menu
\* the first one opened.
C5_Witness ==
    /\ "nav" \in installed
    /\ Len(clickHist) >= 2
    /\ LastTwoClicks = <<"trigger", "trigger">>
    /\ IsOpen(lastClick.before)
    /\ IsClosed(MenuDom)

\* C6: a click on a link of the Closed menu leaves every projection of the
\* menu as it was, a click on a link of the Open menu leaves it Closed, and
\* no click on a link opens the menu.
C6_ForcedCloseOneWay ==
    ("nav" \in installed /\ lastClick.target = "link") =>
        /\ IsClosed(lastClick.before) => MenuDom = lastClick.before
        /\ IsOpen(lastClick.before) => IsClosed(MenuDom)
        /\ ~menuActive

\* C6 witness: the forced close ran on a menu that was already Closed.
C6_Witness ==
    /\ "nav" \in installed
    /\ lastClick.target = "link"
    /\ lastClick.calls = 1
    /\ IsClosed(lastClick.before)

\* C7: in every state reached by trigger, link, panel and outside clicks the
\* expanded attribute, the two active classes, the scroll lock and the
\* trigger's label all denote Open, or all denote Closed.
C7_MenuProjectionsAgree == IsOpen(MenuDom) \/ IsClosed(MenuDom)

\* C7 witness: the menu, closed by an outside or link click, was opened again
\* and shows the 'close' label.
C7_Witness ==
    /\ "nav" \in installed
    /\ Len(clickHist) >= 2
    /\ LastTwoClicks[1] \in {"link", "outside"}
    /\ LastTwoClicks[2] = "trigger"
    /\ IsOpen(MenuDom)
    /\ btnLabel = "close"

\* C8: a click on the trigger runs toggleMenu exactly once and flips the
\* menu once; the document's listener is not run for that click.
C8_OneTransitionPerTriggerClick ==
    ("nav" \in installed /\ lastClick.target = "trigger") =>
        /\ lastClick.calls = 1
        /\ ~lastClick.docRan
        /\ menuActive # lastClick.before.menuActive

\* C8 witness: a trigger click opened the menu and the menu is still Open
\* when the click has been dispatched.
C8_Witness ==
    /\ "nav" \in installed
    /\ lastClick.target = "trigger"
    /\ IsClosed(lastClick.before)
    /\ IsOpen(MenuDom)

\* C9: a click outside the panel and the trigger closes the Open menu and
\* leaves the Closed menu as it was; a click inside the panel, off any link,
\* leaves the Open menu as it was.
C9_OutsideClick ==
    "nav" \in installed =>
        /\ lastClick.target \in {"outside", "themeBtn"} =>
              /\ IsOpen(lastClick.before) => IsClosed(MenuDom)
              /\ IsClosed(lastClick.before) => MenuDom = lastClick.before
        /\ lastClick.target = "panel" =>
              (IsOpen(lastClick.before) => MenuDom = lastClick.before)

\* C9 witness: a click inside the panel left the menu Open, and the outside
\* click that followed closed it.
C9_Witness ==
    /\ "nav" \in installed
    /\ Len(clickHist) >= 2
    /\ LastTwoClicks = <<"panel", "outside">>
    /\ IsOpen(lastClick.before)
    /\ IsClosed(MenuDom)

\* C10 as claimed: after two toggles the mode flag, the icon label and the
\* persisted value are those from before the two toggles, whatever the
\* initial state, an empty store included.
C10_ThemeRoundTrip ==
    Len(themeHist) >= 2 => ThemeState = TwoTogglesAgo

\* C10 amended: after two toggles the mode flag and the icon label are those
\* from before them; the persisted value is the original one whenever the
\* store held a value; from an empty store it is the original mode's token,
\* unless the handler threw before writing, when the store stays empty.
C10_ThemeRoundTripAmended ==
    Len(themeHist) >= 2 =>
        LET o == TwoTogglesAgo
        IN  /\ domDark = o.dark
            /\ iconText = o.icon
            /\ o.stored # Null => stored = o.stored
            /\ o.stored = Null =>
                  stored = IF themeFault THEN Null ELSE TokenOf(o.dark)

\* C10 witness: two toggles from an empty store, which now holds a token.
C10_Witness ==
    /\ Len(themeHist) >= 2
    /\ TwoTogglesAgo.stored = Null
    /\ stored = TokenOf(domDark)
    /\ iconText = LabelOf(domDark)

\* C11 as claimed: after every theme toggle on a page with the icon the DOM
\* flag is Dark iff the persisted value is "dark" (otherwise "light"), and
\* the icon label names the target state.
C11_MirrorsAgree ==
    (Len(themeHist) >= 1 /\ "themeIcon" \in present) =>
        /\ stored = TokenOf(domDark)
        /\ iconText = LabelOf(domDark)

\* C11 amended: on a page with the icon, after every theme toggle the icon
\* label names the target state of the DOM flag; the persisted value is the
\* flag's token when the Preference Store accepts the write, and is left as
\* it was before the toggle when the store is unavailable.
C11_MirrorsAgreeAmended ==
    (Len(themeHist) >= 1 /\ "themeIcon" \in present) =>
        /\ iconText = LabelOf(domDark)
        /\ storageOK => stored = TokenOf(domDark)
        /\ ~storageOK => stored = themeHist[Len(themeHist)].stored

\* C11 witness: a toggle to Dark whose write succeeded, with the icon showing
\* the switch-to-light label.
C11_Witness ==
    /\ Len(themeHist) >= 1
    /\ ~themeFault
    /\ domDark
    /\ stored = "dark"
    /\ iconText = "light_mode"

\* C12: with a readable store and the icon present, after initialisation and
\* before any toggle the icon label matches the DOM flag, and the DOM flag is
\* the one the page had when the listener started.
C12_InitSyncsIconOnly ==
    (storageOK /\ present = Nodes /\ themeHist = <<>>) =>
        /\ iconText = LabelOf(domDark)
        /\ domDark = bootDark

\* C13: with the Preference Store throwing, no exception leaves the
\* initialisation or the toggle handler, the other controllers are
\* initialised, and every toggle flips the DOM flag and the icon label.
C13_StorageFailureSwallowed ==
    (~storageOK /\ present = Nodes) =>
        /\ ~initThrew
        /\ ~themeFault
        /\ {"theme", "nav", "reveal"} \subseteq installed
        /\ Len(themeHist) >= 1 =>
              /\ domDark # themeHist[Len(themeHist)].dark
              /\ iconText = LabelOf(domDark)

\* C14: whatever nodes the page lacks, no exception leaves the initialisation
\* or a later handler, and every controller whose nodes are all present is
\* initialised.
C14_MissingElementNoFault ==
    /\ ~initThrew
    /\ ~themeFault
    /\ {"themeBtn", "themeIcon"} \subseteq present => "theme" \in installed
    /\ {"trigger", "menu"} \subseteq present => "nav" \in installed
    /\ {"header", "sentinel"} \subseteq present => "sticky" \in installed
    /\ {"backTop", "sentinel"} \subseteq present => "backtop" \in installed

\* C15: however many clicks reach the facade's handler, before or after the
\* removal timer fired, the media source is set at most once and at most one
\* removal timer is scheduled.
C15_SingleActivation == srcSets <= 1 /\ timersSet <= 1

\* C16: on a page whose media frame has no locator, the facade stays as the
\* markup has it whatever is clicked: no source, opacity, pointer events and
\* display untouched, no timer.
C16_NoLocatorNoOp == ~hasDataSrc => FacadeDom = FacadeMarkup

\* C16 witness: the handler ran for a click on the facade of a page without
\* a locator.
C16_Witness ==
    /\ ~hasDataSrc
    /\ "facade" \in installed
    /\ lastClick.target = "facade"

\* C20: the fade has started exactly when the source is set; the placeholder
\* leaves the visible tree only in a step in which a removal timer fires, and
\* then the source is already set; the source, the fade and the removal are
\* never undone.
C20_FacadeOneWay ==
    /\ (facadeOpacity = "0") <=> iframeSrc
    /\ [][/\ (facadeOpacity' = "0") <=> iframeSrc'
          /\ facadeDisplay' # facadeDisplay =>
                /\ facadeDisplay' = "none"
                /\ iframeSrc
                /\ facadeTimers' = facadeTimers - 1
          /\ iframeSrc => iframeSrc'
          /\ facadeOpacity = "0" => facadeOpacity' = "0"
          /\ facadeDisplay = "none" => facadeDisplay' = "none"]_vars

\* C20 witness: after an activation the timer fired and the placeholder is
\* out of the visible tree, the source set.
C20_Witness ==
    /\ iframeSrc
    /\ facadeOpacity = "0"
    /\ facadeDisplay = "none"
    /\ facadeTimers = 0

\* C17: after every delivery to the back-to-top observer the button carries
\* 'visible' iff the marker, as the delivery last reports it, does not
\* intersect (clicks on the button in between leave the class as it is).
C17_BackTopMirrorsSignal ==
    ("backtop" \in installed /\ lastNotify # <<>> /\ ~midNotify) =>
        (backTopVisible <=> ~lastNotify[Len(lastNotify)])

\* C18: on a page without the marker the header never carries 'scrolled' and
\* the button never carries 'visible', and a click on the trigger still runs
\* exactly one toggle that opens a closed menu and closes an open one.
C18_NoMarkerNoSignal ==
    "sentinel" \notin present =>
        /\ ~headerScrolled
        /\ ~backTopVisible
        /\ lastClick.target = "trigger" =>
              /\ lastClick.calls = 1
              /\ IsClosed(lastClick.before) => IsOpen(MenuDom)
              /\ IsOpen(lastClick.before) => IsClosed(MenuDom)

\* C18 witness: a page with the header and the button but no marker, where
\* after a click on the back-to-top button a click on the trigger opened the
\* menu.
C18_Witness ==
    /\ "sentinel" \notin present
    /\ {"header", "backTop"} \subseteq present
    /\ Len(clickHist) >= 2
    /\ LastTwoClicks = <<"backTop", "trigger">>
    /\ IsOpen(MenuDom)

\* C19: with the frame callback run whenever it stays scheduled, every element
\* placed in the pending queue eventually carries the 'visible' class.
C19_EventuallyRevealed ==
    \A e \in AllEls : (e \in Range(visibleElements)) ~> (e \in visibleClass)

\* C19 witness: an element was revealed by a commit that ran after an earlier
\* commit had revealed another one.
C19_Witness ==
    /\ rev = "U2"
    /\ visibleClass = WrapperEls
    /\ lastCommit.revealed # {}
    /\ lastCommit.revealed # visibleClass

\* C21: a click on a link of the Open menu reaches the document's listener
\* after the link's own, runs exactly one toggle in all, and leaves the menu
\* Closed.
C21_LinkClickOneTransition ==
    ("nav" \in installed /\ lastClick.target = "link"
        /\ IsOpen(lastClick.before)) =>
        /\ lastClick.docRan
        /\ lastClick.calls = 1
        /\ IsClosed(MenuDom)

\* C21 witness: a trigger click opened the menu and a click on a link, which
\* bubbled to the document, closed it.
C21_Witness ==
    /\ "nav" \in installed
    /\ Len(clickHist) >= 2
    /\ LastTwoClicks = <<"trigger", "link">>
    /\ IsOpen(lastClick.before)
    /\ lastClick.docRan
    /\ IsClosed(MenuDom)

\* C22: on a page with both observers, whenever neither has entries left to
\* deliver and the notification is not between the two callbacks, the header
\* carries 'scrolled' iff the back-to-top button carries 'visible'.
C22_HeaderAndBackTopAgree ==
    ({"sticky", "backtop"} \subseteq installed /\ ~midNotify
        /\ stickyQueue = <<>> /\ backTopQueue = <<>>) =>
        (headerScrolled <=> backTopVisible)

\* C22 witness: both observers delivered a crossing out of the viewport, and
\* the header is shrunk and the button shown.
C22_Witness ==
    /\ {"sticky", "backtop"} \subseteq installed
    /\ ~midNotify
    /\ stickyQueue = <<>>
    /\ backTopQueue = <<>>
    /\ lastSticky # <<>>
    /\ lastNotify # <<>>
    /\ headerScrolled
    /\ backTopVisible

\* The two classes differ between the two callbacks of one notification.
C22_DifferMidNotify == midNotify /\ headerScrolled # backTopVisible

\* C23: after a notification whose deliveries carried more than one entry,
\* the header's 'scrolled' and the button's 'visible' are those of the last
\* entry of the delivery.
C23_LatestEntryWins ==
    ~midNotify =>
        /\ Len(lastSticky) > 1 =>
              (headerScrolled <=> ~lastSticky[Len(lastSticky)])
        /\ Len(lastNotify) > 1 =>
              (backTopVisible <=> ~lastNotify[Len(lastNotify)])

\* The elements the controller of the page's revision may reveal: the
\* reveal-wrappers of the page, without the hero's in the batched revision.
Revealable ==
    IF rev = "U2" THEN pageEls \cap {"w1", "w2"} ELSE pageEls

\* C24: only revealable elements are ever observed, queued or given the
\* 'visible' class; on a page without any, no observer is set up, nothing is
\* observed and no commit is ever scheduled.
C24_OnlyEnumeratedRevealed ==
    /\ visibleClass \subseteq Revealable
    /\ observed \subseteq Revealable
    /\ Range(visibleElements) \subseteq Revealable
    /\ Revealable = {} =>
          /\ "reveal" \notin installed
          /\ observed = {}
          /\ queuedEntries = <<>>
          /\ rafId = NoRaf
          /\ rafPending = 0

\* C24 witness: in the batched revision, on a page with a hero wrapper, every
\* other wrapper was revealed and the hero's was not.
C24_Witness ==
    /\ rev = "U2"
    /\ pageEls = {"w1", "w2", "h1"}
    /\ visibleClass = {"w1", "w2"}
    /\ observed = {}

\* A page whose only wrapper is the hero's: the batched revision sets up
\* nothing.
C24_EmptySetReached ==
    /\ rev = "U2"
    /\ pageEls = {"h1"}
    /\ installed # {}
    /\ "reveal" \notin installed

\* C25: in the batched revision the pending queue is non-empty exactly when
\* the lock is held, and the lock is held exactly when a frame callback is
\* scheduled and has not run.
C25_QueueIffScheduled ==
    rev = "U2" =>
        /\ (visibleElements # <<>>) <=> (rafId # NoRaf)
        /\ (rafId # NoRaf) <=> (rafPending > 0)

\* C25 witness: after a commit emptied the queue and released the lock, a
\* later callback queued an element and scheduled the next commit.
C25_Witness ==
    /\ rev = "U2"
    /\ lastCommit.revealed # {}
    /\ visibleElements # <<>>
    /\ rafId # NoRaf
    /\ rafPending = 1

\* The phase of an element: 1 observed and not revealed, 2 queued (no longer
\* observed, not yet revealed), 3 revealed (no longer observed, not queued),
\* 0 none of the three.
Phase(e) ==
    LET isObserved == e \in observed
        isQueued == \E i \in 1..Len(visibleElements) : visibleElements[i] = e
        isRevealed == e \in visibleClass
    IN  CASE isObserved /\ ~isQueued /\ ~isRevealed -> 1
          [] ~isObserved /\ isQueued /\ ~isRevealed -> 2
          [] ~isObserved /\ ~isQueued /\ isRevealed -> 3
          [] OTHER -> 0

\* C26: in the batched revision every enumerated element is in one of the
\* three phases in every state, and no step moves it to an earlier phase.
C26_PhasesForwardOnly ==
    /\ [](rev = "U2" => \A e \in Revealable : Phase(e) \in {1, 2, 3})
    /\ [][rev = "U2" => \A e \in Revealable : Phase(e)' >= Phase(e)]_vars

\* C26 witness: one element revealed by a commit, the other queued by a later
\* callback and waiting for the next commit.
C26_Witness ==
    /\ rev = "U2"
    /\ Phase("w1") = 3
    /\ Phase("w2") = 2

====
